---------------------------- MODULE Spec2Model ----------------------------
(***************************************************************************)
(* A model of the ACPI table decoding engine of UefiShellAcpiViewCommandLib *)
(* (AcpiParser.c) and of the two table parsers built on it (MadtParser.c,  *)
(* PpttParser.c).                                                          *)
(*                                                                         *)
(* Pointers into the table buffer are modelled as byte offsets from the    *)
(* start of the buffer; NULL is the pointer value -1.  The text printed by *)
(* an operation is modelled as a sequence of events (out).                 *)
(***************************************************************************)
EXTENDS Integers, Sequences, FiniteSets, TLC

VARIABLES
  mTableErrorCount,    \* STATIC UINT32 mTableErrorCount
  mTableWarningCount,  \* STATIC UINT32 mTableWarningCount
  gIndent,             \* STATIC UINT32 gIndent
  ItemPtrs,            \* the static variables the ItemPtr members point to
  Consistency,         \* GetConsistencyChecking ()
  Arch,                \* the build target (MDE_CPU_*)
  pc,                  \* position of the operation in progress
  out,                 \* what the last operation printed / did, as events
  hw,                  \* one past the highest buffer offset read so far
  Parser,              \* descriptor list passed to ParseAcpi
  args,                \* arguments of the call in progress / last call
  ret,                 \* return value of the last call
  Table,               \* which table parser runs: "MADT" or "PPTT"
  AcpiTableLength,     \* AcpiTableLength argument of the table parser
  Offset,              \* the walker's Offset local
  Db,                  \* the struct database (ACPI_STRUCT_DATABASE)
  Mem                  \* the table bytes the walker has looked at so far

vars == <<mTableErrorCount, mTableWarningCount, gIndent, ItemPtrs,
          Consistency, Arch, pc, out, hw, Parser, args, ret,
          Table, AcpiTableLength, Offset, Db, Mem>>

-----------------------------------------------------------------------------
(* Bounds of the model *)

\* longest descriptor list of the generic ParseAcpi specification
MaxItems == 2

\* largest table length handed to a table parser
MaxTableLen == 68

\* largest instance count an earlier parse left in each database entry
MaxCount == 1

\* largest instance count of an entry of the database handed to the count
\* validator
MaxDbCount == 2

-----------------------------------------------------------------------------
(* Basic values *)

NULL == 0 - 1

Archs == {"IA32", "X64", "ARM", "AARCH64"}

Max(a, b) == IF a >= b THEN a ELSE b

Min(a, b) == IF a <= b THEN a ELSE b

\* An ACPI_PARSER element.  Format is TRUE when the Format member is not NULL;
\* PrintFormatter, ItemPtr and FieldValidator hold a name or "NULL".
Field(name, len, off, fmt, pf, ip, fv) ==
  [NameStr |-> name, Length |-> len, Offset |-> off, Format |-> fmt,
   PrintFormatter |-> pf, ItemPtr |-> ip, FieldValidator |-> fv]

RECURSIVE SumLengths(_)
SumLengths(P) ==
  IF P = <<>> THEN 0 ELSE P[1].Length + SumLengths(Tail(P))


-----------------------------------------------------------------------------
(* The descriptor tables of the source *)

\* PARSE_ACPI_HEADER (&Info): the nine fields of the 36-byte
\* EFI_ACPI_DESCRIPTION_HEADER, each captured into a member of Info.
PARSE_ACPI_HEADER(Info) ==
  << Field("Signature", 4, 0, FALSE, "Dump4Chars", Info.Signature, "NULL"),
     Field("Length", 4, 4, TRUE, "NULL", Info.Length, "NULL"),
     Field("Revision", 1, 8, TRUE, "NULL", Info.Revision, "NULL"),
     Field("Checksum", 1, 9, TRUE, "NULL", Info.Checksum, "NULL"),
     Field("Oem ID", 6, 10, FALSE, "Dump6Chars", Info.OemId, "NULL"),
     Field("Oem Table ID", 8, 16, FALSE, "Dump8Chars", Info.OemTableId, "NULL"),
     Field("Oem Revision", 4, 24, TRUE, "NULL", Info.OemRevision, "NULL"),
     Field("Creator ID", 4, 28, FALSE, "Dump4Chars", Info.CreatorId, "NULL"),
     Field("Creator Revision", 4, 32, TRUE, "NULL", Info.CreatorRevision, "NULL") >>

\* STATIC ACPI_DESCRIPTION_HEADER_INFO AcpiHdrInfo of MadtParser.c
MadtAcpiHdrInfo ==
  [Signature |-> "Madt.Signature", Length |-> "Madt.Length",
   Revision |-> "Madt.Revision", Checksum |-> "Madt.Checksum",
   OemId |-> "Madt.OemId", OemTableId |-> "Madt.OemTableId",
   OemRevision |-> "Madt.OemRevision", CreatorId |-> "Madt.CreatorId",
   CreatorRevision |-> "Madt.CreatorRevision"]

\* STATIC ACPI_DESCRIPTION_HEADER_INFO AcpiHdrInfo of PpttParser.c
PpttAcpiHdrInfo ==
  [Signature |-> "Pptt.Signature", Length |-> "Pptt.Length",
   Revision |-> "Pptt.Revision", Checksum |-> "Pptt.Checksum",
   OemId |-> "Pptt.OemId", OemTableId |-> "Pptt.OemTableId",
   OemRevision |-> "Pptt.OemRevision", CreatorId |-> "Pptt.CreatorId",
   CreatorRevision |-> "Pptt.CreatorRevision"]

GasParser ==
  << Field("Address Space ID", 1, 0, TRUE, "NULL", "NULL", "NULL"),
     Field("Register Bit Width", 1, 1, TRUE, "NULL", "NULL", "NULL"),
     Field("Register Bit Offset", 1, 2, TRUE, "NULL", "NULL", "NULL"),
     Field("Address Size", 1, 3, TRUE, "NULL", "NULL", "NULL"),
     Field("Address", 8, 4, TRUE, "NULL", "NULL", "NULL") >>

GicCParser ==
  << Field("Type", 1, 0, TRUE, "NULL", "NULL", "NULL"),
     Field("Length", 1, 1, TRUE, "NULL", "NULL", "NULL"),
     Field("Reserved", 2, 2, TRUE, "NULL", "NULL", "NULL"),
     Field("CPU Interface Number", 4, 4, TRUE, "NULL", "NULL", "NULL"),
     Field("ACPI Processor UID", 4, 8, TRUE, "NULL", "NULL", "NULL"),
     Field("Flags", 4, 12, TRUE, "NULL", "NULL", "NULL"),
     Field("Parking Protocol Version", 4, 16, TRUE, "NULL", "NULL", "NULL"),
     Field("Performance Interrupt GSIV", 4, 20, TRUE, "NULL", "NULL", "NULL"),
     Field("Parked Address", 8, 24, TRUE, "NULL", "NULL", "NULL"),
     Field("Physical Base Address", 8, 32, TRUE, "NULL", "NULL", "NULL"),
     Field("GICV", 8, 40, TRUE, "NULL", "NULL", "NULL"),
     Field("GICH", 8, 48, TRUE, "NULL", "NULL", "NULL"),
     Field("VGIC Maintenance interrupt", 4, 56, TRUE, "NULL", "NULL", "NULL"),
     Field("GICR Base Address", 8, 60, TRUE, "NULL", "NULL", "NULL"),
     Field("MPIDR", 8, 68, TRUE, "NULL", "NULL", "NULL"),
     Field("Processor Power Efficiency Class", 1, 76, TRUE, "NULL", "NULL", "NULL"),
     Field("Reserved", 1, 77, TRUE, "NULL", "NULL", "NULL"),
     Field("SPE overflow Interrupt", 2, 78, TRUE, "NULL", "NULL",
           "ValidateSpeOverflowInterrupt") >>

GicDParser ==
  << Field("Type", 1, 0, TRUE, "NULL", "NULL", "NULL"),
     Field("Length", 1, 1, TRUE, "NULL", "NULL", "NULL"),
     Field("Reserved", 2, 2, TRUE, "NULL", "NULL", "NULL"),
     Field("GIC ID", 4, 4, TRUE, "NULL", "NULL", "NULL"),
     Field("Physical Base Address", 8, 8, TRUE, "NULL", "NULL", "NULL"),
     Field("System Vector Base", 4, 16, TRUE, "NULL", "NULL",
           "ValidateGICDSystemVectorBase"),
     Field("GIC Version", 1, 20, TRUE, "NULL", "NULL", "NULL"),
     Field("Reserved", 3, 21, TRUE, "Dump3Chars", "NULL", "NULL") >>

GicMSIFrameParser ==
  << Field("Type", 1, 0, TRUE, "NULL", "NULL", "NULL"),
     Field("Length", 1, 1, TRUE, "NULL", "NULL", "NULL"),
     Field("Reserved", 2, 2, TRUE, "NULL", "NULL", "NULL"),
     Field("MSI Frame ID", 4, 4, TRUE, "NULL", "NULL", "NULL"),
     Field("Physical Base Address", 8, 8, TRUE, "NULL", "NULL", "NULL"),
     Field("Flags", 4, 16, TRUE, "NULL", "NULL", "NULL"),
     Field("SPI Count", 2, 20, TRUE, "NULL", "NULL", "NULL"),
     Field("SPI Base", 2, 22, TRUE, "NULL", "NULL", "NULL") >>

GicRParser ==
  << Field("Type", 1, 0, TRUE, "NULL", "NULL", "NULL"),
     Field("Length", 1, 1, TRUE, "NULL", "NULL", "NULL"),
     Field("Reserved", 2, 2, TRUE, "NULL", "NULL", "NULL"),
     Field("Discovery Range Base Address", 8, 4, TRUE, "NULL", "NULL", "NULL"),
     Field("Discovery Range Length", 4, 12, TRUE, "NULL", "NULL", "NULL") >>

GicITSParser ==
  << Field("Type", 1, 0, TRUE, "NULL", "NULL", "NULL"),
     Field("Length", 1, 1, TRUE, "NULL", "NULL", "NULL"),
     Field("Reserved", 2, 2, TRUE, "NULL", "NULL", "NULL"),
     Field("GIC ITS ID", 4, 4, TRUE, "NULL", "NULL", "NULL"),
     Field("Physical Base Address", 8, 8, TRUE, "NULL", "NULL", "NULL"),
     Field("Reserved", 4, 16, TRUE, "NULL", "NULL", "NULL") >>

MadtParser ==
  PARSE_ACPI_HEADER(MadtAcpiHdrInfo) \o
  << Field("Local Interrupt Controller Address", 4, 36, TRUE, "NULL", "NULL", "NULL"),
     Field("Flags", 4, 40, TRUE, "NULL", "NULL", "NULL") >>

MadtInterruptControllerHeaderParser ==
  << Field("NULL", 1, 0, FALSE, "NULL", "MadtInterruptControllerType", "NULL"),
     Field("Length", 1, 1, FALSE, "NULL", "MadtInterruptControllerLength", "NULL"),
     Field("Reserved", 2, 2, FALSE, "NULL", "NULL", "NULL") >>

PpttParser == PARSE_ACPI_HEADER(PpttAcpiHdrInfo)

ProcessorTopologyStructureHeaderParser ==
  << Field("Type", 1, 0, FALSE, "NULL", "ProcessorTopologyStructureType", "NULL"),
     Field("Length", 1, 1, FALSE, "NULL", "ProcessorTopologyStructureLength", "NULL"),
     Field("Reserved", 2, 2, FALSE, "NULL", "NULL", "NULL") >>

ProcessorHierarchyNodeStructureParser ==
  << Field("Type", 1, 0, TRUE, "NULL", "NULL", "NULL"),
     Field("Length", 1, 1, TRUE, "NULL", "NULL", "NULL"),
     Field("Reserved", 2, 2, TRUE, "NULL", "NULL", "NULL"),
     Field("Flags", 4, 4, TRUE, "NULL", "NULL", "NULL"),
     Field("Parent", 4, 8, TRUE, "NULL", "NULL", "NULL"),
     Field("ACPI Processor ID", 4, 12, TRUE, "NULL", "NULL", "NULL"),
     Field("Number of private resources", 4, 16, TRUE, "NULL",
           "NumberOfPrivateResources", "NULL") >>

CacheTypeStructureParser ==
  << Field("Type", 1, 0, TRUE, "NULL", "NULL", "NULL"),
     Field("Length", 1, 1, TRUE, "NULL", "NULL", "NULL"),
     Field("Reserved", 2, 2, TRUE, "NULL", "NULL", "NULL"),
     Field("Flags", 4, 4, TRUE, "NULL", "NULL", "NULL"),
     Field("Next Level of Cache", 4, 8, TRUE, "NULL", "NULL", "NULL"),
     Field("Size", 4, 12, TRUE, "NULL", "NULL", "NULL"),
     Field("Number of sets", 4, 16, TRUE, "NULL", "NULL", "ValidateCacheNumberOfSets"),
     Field("Associativity", 1, 20, TRUE, "NULL", "NULL", "ValidateCacheAssociativity"),
     Field("Attributes", 1, 21, TRUE, "NULL", "NULL", "ValidateCacheAttributes"),
     Field("Line size", 2, 22, TRUE, "NULL", "NULL", "ValidateCacheLineSize") >>

IdStructureParser ==
  << Field("Type", 1, 0, TRUE, "NULL", "NULL", "NULL"),
     Field("Length", 1, 1, TRUE, "NULL", "NULL", "NULL"),
     Field("Reserved", 2, 2, TRUE, "NULL", "NULL", "NULL"),
     Field("VENDOR_ID", 4, 4, FALSE, "Dump4Chars", "NULL", "NULL"),
     Field("LEVEL_1_ID", 8, 8, TRUE, "NULL", "NULL", "NULL"),
     Field("LEVEL_2_ID", 8, 16, TRUE, "NULL", "NULL", "NULL"),
     Field("MAJOR_REV", 2, 24, TRUE, "NULL", "NULL", "NULL"),
     Field("MINOR_REV", 2, 26, TRUE, "NULL", "NULL", "NULL"),
     Field("SPIN_REV", 2, 28, TRUE, "NULL", "NULL", "NULL") >>

\* The descriptor list a Handler.ParserArray member points to.
ParserArrayOf(name) ==
  CASE name = "GicCParser" -> GicCParser
    [] name = "GicDParser" -> GicDParser
    [] name = "GicMSIFrameParser" -> GicMSIFrameParser
    [] name = "GicRParser" -> GicRParser
    [] name = "GicITSParser" -> GicITSParser
    [] name = "CacheTypeStructureParser" -> CacheTypeStructureParser
    [] name = "IdStructureParser" -> IdStructureParser
    [] OTHER -> <<>>

\* The static variables the descriptor lists capture field addresses into.
GenericSlots == <<"Item1", "Item2", "Item3", "Item4", "Item5", "Item6">>

SlotNames ==
  { MadtAcpiHdrInfo[k] : k \in DOMAIN MadtAcpiHdrInfo } \cup
  { PpttAcpiHdrInfo[k] : k \in DOMAIN PpttAcpiHdrInfo } \cup
  { "MadtInterruptControllerType", "MadtInterruptControllerLength",
    "ProcessorTopologyStructureType", "ProcessorTopologyStructureLength",
    "NumberOfPrivateResources" } \cup
  { GenericSlots[i] : i \in DOMAIN GenericSlots }

-----------------------------------------------------------------------------
(* AcpiParser.c: counters, renderers, validators *)

\* The part of the program state the engine's functions read and write:
\* err, warn = the two counters, indent = gIndent, slots = the capture
\* variables, hw = read high-water mark, out = the text printed.
Machine(err, warn, indent, slots, h, o) ==
  [err |-> err, warn |-> warn, indent |-> indent, slots |-> slots,
   hw |-> h, out |-> o]

IncrementErrorCount(m) == [m EXCEPT !.err = @ + 1]

IncrementWarningCount(m) == [m EXCEPT !.warn = @ + 1]

\* Print (...): the message is recorded with the indent in force.
Emit(m, e, i, a) ==
  [m EXCEPT !.out = Append(@, [ev |-> e, idx |-> i, at |-> a, ind |-> m.indent])]

\* The bytes [P, P + n) of the buffer are read.
ReadBytes(m, P, n) == [m EXCEPT !.hw = Max(@, P + n)]

\* Number of bytes a PrintFormatter reads at Ptr.
FormatterReads(pf) ==
  CASE pf = "Dump3Chars" -> 3
    [] pf = "Dump4Chars" -> 4
    [] pf = "Dump6Chars" -> 6
    [] pf = "Dump8Chars" -> 8
    [] pf = "Dump12Chars" -> 12
    [] OTHER -> 0

\* Number of bytes a FieldValidator reads at Ptr.
ValidatorReads(fv) ==
  CASE fv = "ValidateGICDSystemVectorBase" -> 4
    [] fv = "ValidateSpeOverflowInterrupt" -> 2
    [] fv = "ValidateCacheNumberOfSets" -> 4
    [] fv = "ValidateCacheAssociativity" -> 1
    [] fv = "ValidateCacheAttributes" -> 1
    [] fv = "ValidateCacheLineSize" -> 2
    [] OTHER -> 1

IsArmBuild(arch) == arch \in {"ARM", "AARCH64"}

\* What a FieldValidator can do, depending on the field's value: nothing
\* ("ok"), IncrementErrorCount ("err") or IncrementWarningCount ("warn").
ValidatorOutcomes(fv, arch) ==
  CASE fv = "NULL" -> {"ok"}
    [] fv = "ValidateGICDSystemVectorBase" -> {"ok", "err"}
    [] fv = "ValidateSpeOverflowInterrupt" -> {"ok", "err", "warn"}
    [] fv = "ValidateCacheNumberOfSets" ->
         IF IsArmBuild(arch) THEN {"ok", "err", "warn"} ELSE {"ok", "err"}
    [] fv = "ValidateCacheAssociativity" -> {"ok", "err"}
    [] fv = "ValidateCacheAttributes" -> {"ok", "err"}
    [] fv = "ValidateCacheLineSize" ->
         IF IsArmBuild(arch) THEN {"ok", "err"} ELSE {"ok"}
    [] OTHER -> {"ok", "err"}

\* Parser[Index].FieldValidator (Ptr, Context), the field's value making
\* the validator take the given outcome.
RunValidator(m, F, Index, P, outcome) ==
  LET m1 == ReadBytes(Emit(m, "validate", Index, P), P, ValidatorReads(F.FieldValidator))
  IN CASE outcome = "err" -> IncrementErrorCount(m1)
       [] outcome = "warn" -> IncrementWarningCount(m1)
       [] OTHER -> m1

\* The outcomes of the validators of a descriptor list, one per field.
RECURSIVE ValidatorChoices(_, _)
ValidatorChoices(P, arch) ==
  IF P = <<>> THEN { <<>> }
  ELSE { <<o>> \o rest : o \in ValidatorOutcomes(P[1].FieldValidator, arch),
                         rest \in ValidatorChoices(Tail(P), arch) }

NoValidatorOutcome(P) == [i \in 1..Len(P) |-> "ok"]

-----------------------------------------------------------------------------
(* AcpiParser.c: ParseAcpi *)

\* The bounds test with >= for >: a field ending exactly at the end of the
\* buffer is taken to lie outside it.
FieldOutOfBoundsInclusive(Off, F, Length) == (Off + F.Length) >= Length

\* (Offset + Parser[Index].Length) > Length
FieldOutOfBounds(Off, F, Length) == (Off + F.Length) > Length

\* The capture variable of a field outside the buffer is left as it was.
ResetItemPtrKeepsValue(m, F) == m

\* *Parser[Index].ItemPtr = NULL for a field outside the buffer
ResetItemPtr(m, F) ==
  IF F.ItemPtr # "NULL" THEN [m EXCEPT !.slots[F.ItemPtr] = NULL] ELSE m

\* The capture variable is set to the address past the field.
SetItemPtrPastField(m, F, P) ==
  IF F.ItemPtr # "NULL" THEN [m EXCEPT !.slots[F.ItemPtr] = P + F.Length] ELSE m

\* The capture variable is set to the start of the buffer.
SetItemPtrToStart(m, F, P) ==
  IF F.ItemPtr # "NULL" THEN [m EXCEPT !.slots[F.ItemPtr] = 0] ELSE m

\* *Parser[Index].ItemPtr = (VOID* )Ptr
SetItemPtr(m, F, P) ==
  IF F.ItemPtr # "NULL" THEN [m EXCEPT !.slots[F.ItemPtr] = P] ELSE m

\* The offset check made whether consistency checking is on or off.
CheckFieldOffsetAlways(m, F, Index, Off, CC) ==
  IF Off # F.Offset
    THEN Emit(IncrementErrorCount(m), "mismatch", Index, Off)
    ELSE m

\* The offset consistency check made before a field is decoded.
CheckFieldOffset(m, F, Index, Off, CC) ==
  IF CC /\ (Off # F.Offset)
    THEN Emit(IncrementErrorCount(m), "mismatch", Index, Off)
    ELSE m

\* The switch on Parser[Index].Length of the default renderer.
DumpByLength(m, F, Index, P) ==
  IF F.Length \in {1, 2, 4, 8}
    THEN ReadBytes(Emit(m, "dump", Index, P), P, F.Length)
    ELSE Emit(m, "cannot", Index, P)

\* The validator call made whether consistency checking is on or off.
ValidateFieldAlways(m, F, Index, P, env) ==
  IF F.FieldValidator # "NULL"
    THEN RunValidator(m, F, Index, P, env.VOut[Index + 1])
    ELSE m

\* The validator call of the traced branch.
ValidateField(m, F, Index, P, env) ==
  IF env.CC /\ (F.FieldValidator # "NULL")
    THEN RunValidator(m, F, Index, P, env.VOut[Index + 1])
    ELSE m

RECURSIVE ParseAcpi(_, _, _, _, _, _, _, _)

\* Parser[Index].PrintFormatter (Parser[Index].Format, Ptr)
RunFormatter(m, F, Index, P, env) ==
  IF F.PrintFormatter = "DumpGas"
    THEN ParseAcpi(Emit(m, "formatter", Index, P), TRUE, 2, "NULL", P, 12,
                   GasParser, [env EXCEPT !.VOut = NoValidatorOutcome(GasParser)]).m
    ELSE ReadBytes(Emit(m, "formatter", Index, P), P,
                   FormatterReads(F.PrintFormatter))

\* The body of if (Trace) for one field.
TraceField(m, F, Index, P, env) ==
  LET m0 == Emit(m, "name", Index, P)
  IN IF F.PrintFormatter # "NULL"
       THEN RunFormatter(m0, F, Index, P, env)
       ELSE IF F.Format
              THEN ValidateField(DumpByLength(m0, F, Index, P), F, Index, P, env)
              ELSE m0

\* The for loop of ParseAcpi from iteration Index (0-based) on; st holds the
\* machine and the running Offset the earlier iterations left.
RECURSIVE ParseAcpiLoop(_, _, _, _, _, _, _)
ParseAcpiLoop(st, Index, Trace, Ptr, Length, P, env) ==
  IF Index >= Len(P) THEN [m |-> st.m, ret |-> st.Off]
  ELSE
    LET F == P[Index + 1] IN
    IF FieldOutOfBounds(st.Off, F, Length)
      THEN ParseAcpiLoop([m |-> ResetItemPtr(st.m, F), Off |-> st.Off],
                         Index + 1, Trace, Ptr, Length, P, env)
      ELSE
        LET m1 == CheckFieldOffset(st.m, F, Index, st.Off, env.CC)
            m2 == IF Trace THEN TraceField(m1, F, Index, Ptr + st.Off, env)
                           ELSE m1
            m3 == SetItemPtr(m2, F, Ptr + st.Off)
        IN ParseAcpiLoop([m |-> m3, Off |-> st.Off + F.Length],
                         Index + 1, Trace, Ptr, Length, P, env)

\* The indent is left as the call raised it.
RestoreIndentSkipped(m, Indent) == m

\* gIndent -= Indent, before the return
RestoreIndent(m, Indent) == [m EXCEPT !.indent = @ - Indent]

ParseAcpi(m, Trace, Indent, AsciiName, Ptr, Length, P, env) ==
  LET m0 == [m EXCEPT !.indent = @ + Indent]
      m1 == IF Trace /\ (AsciiName # "NULL")
              THEN Emit(m0, "section", 0, Ptr) ELSE m0
      r  == ParseAcpiLoop([m |-> m1, Off |-> 0], 0, Trace, Ptr, Length, P, env)
  IN [m |-> RestoreIndent(r.m, Indent), ret |-> r.ret]

-----------------------------------------------------------------------------
(* The state as a Machine record, and back *)

TheMachine ==
  Machine(mTableErrorCount, mTableWarningCount, gIndent, ItemPtrs, hw, <<>>)

\* The primed variables take the values of the machine m.
Becomes(m) ==
  /\ mTableErrorCount' = m.err
  /\ mTableWarningCount' = m.warn
  /\ gIndent' = m.indent
  /\ ItemPtrs' = m.slots
  /\ hw' = m.hw
  /\ out' = m.out

Env(vout) == [CC |-> Consistency, VOut |-> vout]

-----------------------------------------------------------------------------
(* Specification SpecParse: ParseAcpi called on a descriptor list *)

\* The shapes of descriptor the lists are built of: length, format,
\* formatter, capture slot, validator.
FieldKinds ==
  { [Length |-> 1, Format |-> TRUE,  PrintFormatter |-> "NULL",
     Slot |-> FALSE, FieldValidator |-> "NULL"],
    [Length |-> 1, Format |-> FALSE, PrintFormatter |-> "NULL",
     Slot |-> TRUE,  FieldValidator |-> "NULL"],
    [Length |-> 2, Format |-> TRUE,  PrintFormatter |-> "NULL",
     Slot |-> FALSE, FieldValidator |-> "FieldValidator"],
    [Length |-> 3, Format |-> TRUE,  PrintFormatter |-> "Dump3Chars",
     Slot |-> FALSE, FieldValidator |-> "NULL"],
    [Length |-> 4, Format |-> FALSE, PrintFormatter |-> "Dump4Chars",
     Slot |-> TRUE,  FieldValidator |-> "FieldValidator"],
    [Length |-> 4, Format |-> TRUE,  PrintFormatter |-> "NULL",
     Slot |-> TRUE,  FieldValidator |-> "NULL"],
    [Length |-> 3, Format |-> TRUE,  PrintFormatter |-> "NULL",
     Slot |-> TRUE,  FieldValidator |-> "FieldValidator"],
    [Length |-> 2, Format |-> FALSE, PrintFormatter |-> "NULL",
     Slot |-> FALSE, FieldValidator |-> "FieldValidator"],
    [Length |-> 12, Format |-> FALSE, PrintFormatter |-> "DumpGas",
     Slot |-> FALSE, FieldValidator |-> "NULL"] }

\* The sum of the lengths of the first n kinds of ks.
RECURSIVE PrefixSum(_, _)
PrefixSum(ks, n) == IF n = 0 THEN 0 ELSE ks[n].Length + PrefixSum(ks, n - 1)

\* The descriptor list of the kinds ks; the declared offsets are the running
\* sums, except that of field p (1-based, 0 for none), which is one more.
MakeParser(ks, p) ==
  [i \in 1..Len(ks) |->
     Field("Field", ks[i].Length,
           PrefixSum(ks, i - 1) + (IF i = p THEN 1 ELSE 0),
           ks[i].Format, ks[i].PrintFormatter,
           IF ks[i].Slot THEN GenericSlots[i] ELSE "NULL",
           ks[i].FieldValidator)]

ParserLists ==
  { MakeParser(ks, p) :
      ks \in UNION { [1..n -> FieldKinds] : n \in 1..MaxItems },
      p \in 0..MaxItems }

InitCommon ==
  /\ mTableErrorCount = 0
  /\ mTableWarningCount = 0
  /\ gIndent = 0
  /\ ItemPtrs = [s \in SlotNames |-> NULL]
  /\ Consistency \in BOOLEAN
  /\ out = <<>>
  /\ hw = 0
  /\ ret = 0

\* What a capture variable holds that an earlier ParseAcpi call set: a
\* pointer into the buffer of that call.
EarlierPtr == 0 - 2

\* The buffer ParseAcpi is called on, as far as its bytes matter: 0x01, 0x18.
Buffer == (0 :> 1) @@ (1 :> 24)

InitParse ==
  /\ mTableErrorCount = 0
  /\ mTableWarningCount = 0
  /\ gIndent = 0
  /\ ItemPtrs \in { [s \in SlotNames |-> NULL], [s \in SlotNames |-> EarlierPtr] }
  /\ Consistency \in BOOLEAN
  /\ out = <<>>
  /\ hw = 0
  /\ ret = 0
  /\ Arch = "X64"
  /\ pc = "idle"
  /\ Parser \in ParserLists
  /\ args = [Trace |-> FALSE, Indent |-> 0, Length |-> 0, VOut |-> <<>>,
             gIndent |-> 0]
  /\ Table = "NONE"
  /\ AcpiTableLength = 0
  /\ Offset = 0
  /\ Db = <<>>
  /\ Mem = Buffer

\* ParseAcpi (Trace, Indent, AsciiName, Ptr, Length, Parser, ParserItems)
CallParseAcpi ==
  /\ pc = "idle"
  /\ \E Trace \in BOOLEAN, Indent \in {0, 2},
        Length \in 0..(SumLengths(Parser) + 1),
        vout \in ValidatorChoices(Parser, Arch) :
       LET r == ParseAcpi(TheMachine, Trace, Indent, "Name", 0, Length,
                          Parser, Env(vout))
       IN /\ Becomes(r.m)
          /\ ret' = r.ret
          /\ args' = [Trace |-> Trace, Indent |-> Indent, Length |-> Length,
                      VOut |-> vout, gIndent |-> gIndent]
  /\ pc' = "returned"
  /\ UNCHANGED <<Consistency, Arch, Parser, Table, AcpiTableLength, Offset,
                 Db, Mem>>

NextParse == CallParseAcpi

SpecParse == InitParse /\ [][NextParse]_vars

-----------------------------------------------------------------------------
(* Machine words: little-endian sequences of bytes, arithmetic modulo 2^width *)

\* b * k + c on a word of Len(b) bytes; the carry out of the top byte is lost.
RECURSIVE MulAdd(_, _, _)
MulAdd(b, k, c) ==
  IF b = <<>> THEN <<>>
  ELSE LET v == b[1] * k + c
       IN <<v % 256>> \o MulAdd(Tail(b), k, v \div 256)

\* The word b widened (zero-extended) or narrowed to n bytes.
Resize(b, n) == [i \in 1..n |-> IF i <= Len(b) THEN b[i] ELSE 0]

\* Whether word b is greater than the number n < 2^24.
WordGreater(b, n) ==
  \/ \E i \in 4..Len(b) : b[i] # 0
  \/ b[1] + 256 * b[2] + 65536 * b[3] > n

\* sizeof (UINTN) of the build target
WordBytes(arch) == IF arch \in {"X64", "AARCH64"} THEN 8 ELSE 4

\* An offset beyond every buffer of the model: where a read lands whose
\* distance from the buffer is 2^18 bytes or more.
Far == 2 ^ 30

-----------------------------------------------------------------------------
(* AcpiParser.c: the struct database *)

\* An ACPI_STRUCT_INFO element.
StructInfo(name, type, compat, func, array) ==
  [Name |-> name, Type |-> type, CompatArch |-> compat, Count |-> 0,
   ParserFunc |-> func, ParserArray |-> array]

EntryCount(db) == Len(db.Entries)

\* StructDb->Entries[Type]
Entry(db, Type) == db.Entries[Type + 1]

\* The counts are left as they were.
ResetAcpiStructCountsSkipped(db) == db

ResetAcpiStructCounts(db) ==
  [db EXCEPT !.Entries = [i \in DOMAIN @ |-> [@[i] EXCEPT !.Count = 0]]]

RECURSIVE SumCounts(_)
SumCounts(es) == IF es = <<>> THEN 0 ELSE es[1].Count + SumCounts(Tail(es))

SumAcpiStructCounts(db) == SumCounts(db.Entries)

\* The test of the builds that are not ARM, on every build.
IsAcpiStructTypeValidUnmasked(Type, db, arch) ==
  IF Type >= EntryCount(db) THEN FALSE
  ELSE Entry(db, Type).CompatArch # {}

IsAcpiStructTypeValid(Type, db, arch) ==
  IF Type >= EntryCount(db) THEN FALSE
  ELSE IF IsArmBuild(arch)
         THEN (Entry(db, Type).CompatArch \cap {"ARM", "AARCH64"}) # {}
         ELSE Entry(db, Type).CompatArch # {}

\* The loop of ValidateAcpiStructCounts from Type on; r = [m, AllValid].
RECURSIVE ValidateLoop(_, _, _, _)
ValidateLoop(r, Type, db, arch) ==
  IF Type >= EntryCount(db) THEN r
  ELSE IF IsAcpiStructTypeValid(Type, db, arch)
    THEN ValidateLoop([r EXCEPT !.m = Emit(@, "count", Type, Entry(db, Type).Count)],
                      Type + 1, db, arch)
    ELSE IF Entry(db, Type).Count > 0
      THEN ValidateLoop([m |-> Emit(IncrementErrorCount(r.m), "archerr", Type,
                                    Entry(db, Type).Count),
                         ret |-> FALSE],
                        Type + 1, db, arch)
      ELSE ValidateLoop(r, Type + 1, db, arch)

\* The validator that clears the counts it has reported.
ValidateAcpiStructCountsResetting(m, db, arch) ==
  LET r == ValidateLoop([m |-> Emit(m, "breakdown", 0, 0), ret |-> TRUE],
                        0, db, arch)
  IN [m |-> r.m, ret |-> r.ret, db |-> ResetAcpiStructCounts(db)]

\* r = [m, ret, db]: StructDb is CONST and nothing is written through it.
ValidateAcpiStructCounts(m, db, arch) ==
  LET r == ValidateLoop([m |-> Emit(m, "breakdown", 0, 0), ret |-> TRUE],
                        0, db, arch)
  IN [m |-> r.m, ret |-> r.ret, db |-> db]

\* StructDb->Entries[Type].Count++
IncrementCount(db, Type) == [db EXCEPT !.Entries[Type + 1].Count = @ + 1]

\* The label with the number of the instance counted from one.
PrintAcpiStructNameFromOne(m, Type, Index) ==
  Emit(m, "structname", Type, Index + 1)

\* PrintAcpiStructName (Name, Index, ...): the label "Name [Index]" of the
\* structure of this type
PrintAcpiStructName(m, Type, Index) == Emit(m, "structname", Type, Index)

-----------------------------------------------------------------------------
(* PpttParser.c: DumpProcessorHierarchyNodeStructure *)

\* Offset + (*NumberOfPrivateResources * sizeof (UINT32)) > Length, in UINTN
PrivateResourcesOverrun(Off, npr, Length, arch) ==
  WordGreater(MulAdd(Resize(npr, WordBytes(arch)), 4, Off), Length)

\* The while loop: *NumberOfPrivateResources entries of 4 bytes are read
\* from Ptr + Offset on.
ReadPrivateResources(m, Ptr, Off, npr) ==
  IF npr = <<0, 0, 0, 0>> THEN m
  ELSE IF npr[3] = 0 /\ npr[4] = 0
    THEN LET n == npr[1] + 256 * npr[2]
         IN ReadBytes(Emit(m, "private", n, Ptr + Off), Ptr + Off, 4 * n)
    ELSE ReadBytes(Emit(m, "private", Far, Ptr + Off), Far, 0)

\* npr: the four bytes at *NumberOfPrivateResources, read only if the pointer
\* is not NULL.
DumpProcessorHierarchyNodeStructure(m, db, Ptr, Length, env, npr, arch) ==
  LET m0 == PrintAcpiStructName(m, 0, Entry(db, 0).Count)
      r  == ParseAcpi(m0, TRUE, 2, "Name", Ptr, Length,
                      ProcessorHierarchyNodeStructureParser, env)
      p  == r.m.slots["NumberOfPrivateResources"]
  IN IF p = NULL
       THEN Emit(IncrementErrorCount(r.m), "insufficient", 0, Ptr)
       ELSE LET m1 == ReadBytes(r.m, p, 4)
            IN IF PrivateResourcesOverrun(r.ret, npr, Length, arch)
                 THEN Emit(IncrementErrorCount(m1), "invalidnpr", 0, Ptr)
                 ELSE ReadPrivateResources(m1, Ptr, r.ret, npr)

-----------------------------------------------------------------------------
(* AcpiParser.c: ParseAcpiStruct *)

\* The descriptor list ParseAcpi is run on for a structure of this type, by
\* ParseAcpiStruct or by the type's ParserFunc; <<>> when there is none.
StructParser(db, Type) ==
  IF Type >= EntryCount(db) THEN <<>>
  ELSE IF Entry(db, Type).ParserFunc # "NULL"
    THEN ProcessorHierarchyNodeStructureParser
    ELSE ParserArrayOf(Entry(db, Type).ParserArray)

\* Type >= StructDb->EntryCount
UnknownType(db, Type) == Type >= EntryCount(db)

\* The unknown type branch that prints the message and counts no error.
UnknownTypeErrorUncounted(m, db, Type) ==
  [m  |-> Emit(m, "unknown", Type, 0),
   db |-> db,
   ret |-> FALSE]

\* IncrementErrorCount (); Print (L"ERROR: Unknown ..."); return FALSE;
UnknownTypeError(m, db, Type) ==
  [m  |-> Emit(IncrementErrorCount(m), "unknown", Type, 0),
   db |-> db,
   ret |-> FALSE]

\* The else branch without the count of the instance.
NotImplementedUncounted(m, db, Type) ==
  [m  |-> Emit(m, "notimpl", Type, 0),
   db |-> db,
   ret |-> FALSE]

\* The else branch: neither ParserFunc nor ParserArray.
NotImplemented(m, db, Type) ==
  [m  |-> Emit(m, "notimpl", Type, 0),
   db |-> IncrementCount(db, Type),
   ret |-> FALSE]

\* r = [m, db, ret]
ParseAcpiStruct(m, Indent, Ptr, db, Off, Type, Length, env, npr, arch) ==
  LET m0 == Emit(m, "offset", Indent, Off)
  IN IF UnknownType(db, Type)
       THEN UnknownTypeError(m0, db, Type)
       ELSE IF Entry(db, Type).ParserFunc # "NULL"
         THEN [m |-> DumpProcessorHierarchyNodeStructure(m0, db, Ptr, Length,
                                                         env, npr, arch),
               db |-> IncrementCount(db, Type), ret |-> TRUE]
         ELSE IF Entry(db, Type).ParserArray # "NULL"
           THEN [m |-> ParseAcpi(PrintAcpiStructName(m0, Type, Entry(db, Type).Count),
                                 TRUE, Indent, "Name", Ptr, Length,
                                 ParserArrayOf(Entry(db, Type).ParserArray), env).m,
                 db |-> IncrementCount(db, Type), ret |-> TRUE]
           ELSE NotImplemented(m0, db, Type)

-----------------------------------------------------------------------------
(* MadtParser.c and PpttParser.c: the databases *)

X86Only == {"IA32", "X64"}

ArmOnly == {"ARM", "AARCH64"}

MadtStructs ==
  << StructInfo("Processor Local APIC", 0, X86Only, "NULL", "NULL"),
     StructInfo("I/O APIC", 1, X86Only, "NULL", "NULL"),
     StructInfo("Interrupt Source Override", 2, X86Only, "NULL", "NULL"),
     StructInfo("NMI Source", 3, X86Only, "NULL", "NULL"),
     StructInfo("Local APIC NMI", 4, X86Only, "NULL", "NULL"),
     StructInfo("Local APIC Address Override", 5, X86Only, "NULL", "NULL"),
     StructInfo("I/O SAPIC", 6, X86Only, "NULL", "NULL"),
     StructInfo("Local SAPIC", 7, X86Only, "NULL", "NULL"),
     StructInfo("Platform Interrupt Sources", 8, X86Only, "NULL", "NULL"),
     StructInfo("Processor Local x2APIC", 9, X86Only, "NULL", "NULL"),
     StructInfo("Local x2APIC NMI", 10, X86Only, "NULL", "NULL"),
     StructInfo("GICC", 11, ArmOnly, "NULL", "GicCParser"),
     StructInfo("GICD", 12, ArmOnly, "NULL", "GicDParser"),
     StructInfo("GIC MSI Frame", 13, ArmOnly, "NULL", "GicMSIFrameParser"),
     StructInfo("GICR", 14, ArmOnly, "NULL", "GicRParser"),
     StructInfo("GIC ITS", 15, ArmOnly, "NULL", "GicITSParser") >>

MadtDatabase == [Name |-> "Interrupt Controller Structure", Entries |-> MadtStructs]

PpttStructs ==
  << StructInfo("Processor", 0, Archs, "DumpProcessorHierarchyNodeStructure", "NULL"),
     StructInfo("Cache", 1, Archs, "NULL", "CacheTypeStructureParser"),
     StructInfo("ID", 2, Archs, "NULL", "IdStructureParser") >>

PpttDatabase == [Name |-> "Processor Topology Structure", Entries |-> PpttStructs]

\* EFI_ACPI_6_3_GICD
GicdType == 12

-----------------------------------------------------------------------------
(* Specification SpecWalk: ParseAcpiMadt / ParseAcpiPptt on a table *)

\* The values of the bytes the walker reads as a structure's type and as its
\* length.
TypeVals(t) == IF t = "MADT" THEN {0, 1, 12, 16} ELSE {0, 1, 2, 3}

LengthVals == {0, 1, 24, 255}

\* The values of the Number of private resources field, as four bytes.
NprVals ==
  { <<0, 0, 0, 0>>, <<1, 0, 0, 0>>, <<2, 0, 0, 0>>, <<0, 0, 0, 64>>,
    <<1, 0, 0, 64>>, <<255, 255, 255, 255>> }

Database(t) == IF t = "MADT" THEN MadtDatabase ELSE PpttDatabase

TableParser(t) == IF t = "MADT" THEN MadtParser ELSE PpttParser

HeaderParser(t) ==
  IF t = "MADT" THEN MadtInterruptControllerHeaderParser
                ELSE ProcessorTopologyStructureHeaderParser

TypeSlot(t) ==
  IF t = "MADT" THEN "MadtInterruptControllerType"
                ELSE "ProcessorTopologyStructureType"

LengthSlot(t) ==
  IF t = "MADT" THEN "MadtInterruptControllerLength"
                ELSE "ProcessorTopologyStructureLength"

\* The byte at buffer offset p is v: it is v if the walker saw it before.
Holds(p, v) == (p \in DOMAIN Mem) => (Mem[p] = v)

Reveal(mem, p, v) == (p :> v) @@ mem

\* The bytes the walk can still look at once its offset is off.
Ahead(mem, off) ==
  LET D == { p \in DOMAIN mem : p >= off } IN [p \in D |-> mem[p]]

\* The static database with the count c in every entry, as a parse of an
\* earlier table left it.
WithCounts(db, c) ==
  [db EXCEPT !.Entries = [i \in DOMAIN @ |-> [@[i] EXCEPT !.Count = c]]]

InitWalk ==
  /\ InitCommon
  /\ Arch \in Archs
  /\ pc = "start"
  /\ Parser = <<>>
  /\ args \in [Trace : BOOLEAN, Left : 0..MaxCount]
  /\ Table \in {"MADT", "PPTT"}
  /\ AcpiTableLength \in 0..MaxTableLen
  /\ Offset = 0
  /\ Db = WithCounts(Database(Table), args.Left)
  /\ Mem = <<>>

\* if (!Trace) return;
ReturnUntraced ==
  /\ pc = "start"
  /\ ~args.Trace
  /\ pc' = "done"
  /\ UNCHANGED <<mTableErrorCount, mTableWarningCount, gIndent, ItemPtrs,
                 Consistency, Arch, out, hw, Parser, args, ret, Table,
                 AcpiTableLength, Offset, Db, Mem>>

\* ResetAcpiStructCounts, then the traced ParseAcpi of the fixed part.
ParseTableHeader ==
  /\ pc = "start"
  /\ args.Trace
  /\ LET r == ParseAcpi(TheMachine, TRUE, 0, Table, 0, AcpiTableLength,
                        TableParser(Table),
                        Env(NoValidatorOutcome(TableParser(Table))))
     IN /\ Becomes(r.m)
        /\ Offset' = r.ret
  /\ Db' = ResetAcpiStructCounts(Db)
  /\ pc' = "loop"
  /\ UNCHANGED <<Consistency, Arch, Parser, args, ret, Table,
                 AcpiTableLength, Mem>>

\* while (Offset < AcpiTableLength): the untraced ParseAcpi of the
\* structure header.
Lookahead ==
  /\ pc = "loop"
  /\ Offset < AcpiTableLength
  /\ LET r == ParseAcpi(TheMachine, FALSE, 0, "NULL", Offset,
                        AcpiTableLength - Offset, HeaderParser(Table),
                        Env(NoValidatorOutcome(HeaderParser(Table))))
     IN Becomes(r.m)
  /\ pc' = "check"
  /\ UNCHANGED <<Consistency, Arch, Parser, args, ret, Table,
                 AcpiTableLength, Offset, Db, Mem>>

\* The loop condition fails.
LoopExit ==
  /\ pc = "loop"
  /\ ~(Offset < AcpiTableLength)
  /\ pc' = "counts"
  /\ out' = <<>>
  /\ UNCHANGED <<mTableErrorCount, mTableWarningCount, gIndent, ItemPtrs,
                 Consistency, Arch, hw, Parser, args, ret, Table,
                 AcpiTableLength, Offset, Db, Mem>>

\* if ((Type == NULL) || (Length == NULL))
HeaderNotRead(slots, t) == (slots[TypeSlot(t)] = NULL) \/ (slots[LengthSlot(t)] = NULL)

CheckHeader ==
  /\ pc = "check"
  /\ IF HeaderNotRead(ItemPtrs, Table)
       THEN /\ Becomes(Emit(IncrementErrorCount(TheMachine), "insufficient",
                            0, Offset))
            /\ pc' = "done"
       ELSE /\ Becomes(TheMachine)
            /\ pc' = "checklen"
  /\ UNCHANGED <<Consistency, Arch, Parser, args, ret, Table,
                 AcpiTableLength, Offset, Db, Mem>>

\* The length test without the test for zero.
InvalidLengthBeyondOnly(off, len, tableLength) == (off + len) > tableLength

\* (*Length == 0) || ((Offset + (*Length)) > AcpiTableLength)
InvalidLength(off, len, tableLength) == (len = 0) \/ ((off + len) > tableLength)

CheckLength ==
  /\ pc = "checklen"
  /\ \E len \in LengthVals :
       LET lp == ItemPtrs[LengthSlot(Table)]
           m  == ReadBytes(TheMachine, lp, 1)
       IN /\ Holds(lp, len)
          /\ Mem' = Reveal(Mem, lp, len)
          /\ IF InvalidLength(Offset, len, AcpiTableLength)
               THEN /\ Becomes(Emit(IncrementErrorCount(m), "invalidlen",
                                    len, Offset))
                    /\ pc' = "done"
               ELSE /\ Becomes(m)
                    /\ pc' = "dispatch"
  /\ UNCHANGED <<Consistency, Arch, Parser, args, ret, Table,
                 AcpiTableLength, Offset, Db>>

\* The validator outcomes and the field value the structure's bytes decide.
OutcomeChoices(db, type) ==
  IF Consistency THEN ValidatorChoices(StructParser(db, type), Arch)
                 ELSE { NoValidatorOutcome(StructParser(db, type)) }

NprChoices(db, type) ==
  IF ~UnknownType(db, type) /\ Entry(db, type).ParserFunc # "NULL"
    THEN NprVals ELSE { <<0, 0, 0, 0>> }

\* ParseAcpiStruct (2, Ptr, &Database, Offset, *Type, *Length, NULL, NULL).
\* A read beyond the table is undefined behaviour: the parse goes on or faults.
Dispatch ==
  /\ pc = "dispatch"
  /\ \E type \in TypeVals(Table), len \in LengthVals :
       LET tp == ItemPtrs[TypeSlot(Table)]
           lp == ItemPtrs[LengthSlot(Table)]
       IN /\ Holds(lp, len)
          /\ Holds(tp, type)
          /\ Mem' = Reveal(Reveal(Mem, lp, len), tp, type)
          /\ \E vout \in OutcomeChoices(Db, type), npr \in NprChoices(Db, type) :
               LET m == ReadBytes(ReadBytes(TheMachine, lp, 1), tp, 1)
                   r == ParseAcpiStruct(m, 2, Offset, Db, Offset, type, len,
                                        Env(vout), npr, Arch)
               IN /\ Becomes(r.m)
                  /\ Db' = r.db
                  /\ ret' = IF r.ret THEN 1 ELSE 0
                  /\ \/ pc' = "advance"
                     \/ r.m.hw > AcpiTableLength /\ pc' = "fault"
  /\ UNCHANGED <<Consistency, Arch, Parser, args, Table, AcpiTableLength,
                 Offset>>

\* Ptr += *Length; Offset += *Length;
Advance ==
  /\ pc = "advance"
  /\ \E len \in LengthVals :
       LET lp == ItemPtrs[LengthSlot(Table)]
       IN /\ Holds(lp, len)
          /\ Offset' = Offset + len
          /\ Mem' = Ahead(Reveal(Mem, lp, len), Offset + len)
          /\ hw' = Max(hw, lp + 1)
  /\ pc' = "loop"
  /\ out' = <<>>
  /\ UNCHANGED <<mTableErrorCount, mTableWarningCount, gIndent, ItemPtrs,
                 Consistency, Arch, Parser, args, ret, Table,
                 AcpiTableLength, Db>>

\* if (GetConsistencyChecking ()) ValidateAcpiStructCounts (...); for the
\* MADT also the check that there is one GICD at most.
GicdCheck(m, db, t) ==
  IF t = "MADT" /\ Entry(db, GicdType).Count > 1
    THEN Emit(IncrementErrorCount(m), "onegicd", GicdType, 0)
    ELSE m

ReportCounts ==
  /\ pc = "counts"
  /\ IF Consistency
       THEN LET r == ValidateAcpiStructCounts(TheMachine, Db, Arch)
            IN /\ Becomes(GicdCheck(r.m, r.db, Table))
               /\ ret' = IF r.ret THEN 1 ELSE 0
               /\ Db' = r.db
       ELSE /\ Becomes(TheMachine)
            /\ ret' = ret
            /\ Db' = Db
  /\ pc' = "done"
  /\ UNCHANGED <<Consistency, Arch, Parser, args, Table, AcpiTableLength,
                 Offset, Mem>>

NextWalk ==
  \/ ReturnUntraced
  \/ ParseTableHeader
  \/ Lookahead
  \/ LoopExit
  \/ CheckHeader
  \/ CheckLength
  \/ Dispatch
  \/ Advance
  \/ ReportCounts

SpecWalk == InitWalk /\ [][NextWalk]_vars

-----------------------------------------------------------------------------
(* Specification SpecDb: ValidateAcpiStructCounts called on a database *)

\* The compatibility masks of the entries of the databases.
CompatMasks == { ArmOnly, X86Only, Archs }

\* A database of Len(compat) entries without handlers, entry i allowed on
\* compat[i] and seen counts[i] times.
MakeDatabase(compat, counts) ==
  [Name |-> "Structure",
   Entries |-> [i \in DOMAIN compat |->
                  [StructInfo("Struct", i - 1, compat[i], "NULL", "NULL")
                     EXCEPT !.Count = counts[i]]]]

InitDb ==
  /\ InitCommon
  /\ Arch \in Archs
  /\ pc = "idle"
  /\ Parser = <<>>
  /\ args = [Calls |-> 0]
  /\ Table = "NONE"
  /\ AcpiTableLength = 0
  /\ Offset = 0
  /\ \E compat \in [1..4 -> CompatMasks], counts \in [1..4 -> 0..MaxDbCount] :
       Db = MakeDatabase(compat, counts)
  /\ Mem = <<>>

\* ValidateAcpiStructCounts (&Database), called up to twice in a row
CallValidateAcpiStructCounts ==
  /\ pc \in {"idle", "once"}
  /\ LET r == ValidateAcpiStructCounts(TheMachine, Db, Arch)
     IN /\ Becomes(r.m)
        /\ ret' = IF r.ret THEN 1 ELSE 0
        /\ Db' = r.db
  /\ pc' = IF pc = "idle" THEN "once" ELSE "twice"
  /\ args' = [Calls |-> args.Calls + 1]
  /\ UNCHANGED <<Consistency, Arch, Parser, Table, AcpiTableLength, Offset,
                 Mem>>

NextDb == CallValidateAcpiStructCounts

SpecDb == InitDb /\ [][NextDb]_vars

-----------------------------------------------------------------------------
(* Specification SpecWide: one iteration of the walker's loop where Offset and
   AcpiTableLength are kept as the UINT32 words they are, in the first 256
   bytes of a table and in the last 256 bytes below 2^32.  Pointers are
   relative to the structure the iteration is at. *)

\* how far below a multiple of 256 the offsets and table lengths start
MaxBack == 5

\* The upper three bytes of the offsets and table lengths.
UpperBytes == { <<0, 0, 0>>, <<255, 255, 255>> }

LowBytes == (255 - MaxBack)..255

\* a < b on words of the same width (UINT32 comparison)
WordLess(a, b) ==
  \E i \in DOMAIN a :
    /\ a[i] < b[i]
    /\ \A j \in DOMAIN a : (j > i) => (a[j] = b[j])

\* AcpiTableLength - Offset as a number; 256 stands for every larger value.
Remaining(off, tableLength) ==
  IF \E d \in 0..255 : MulAdd(off, 1, d) = tableLength
    THEN CHOOSE d \in 0..255 : MulAdd(off, 1, d) = tableLength
    ELSE 256

\* (*Length == 0) || ((Offset + (*Length)) > AcpiTableLength), in UINT32
InvalidLength32(off, len, tableLength) ==
  (len = 0) \/ WordLess(tableLength, MulAdd(off, 1, len))

InitWide ==
  /\ InitCommon
  /\ Arch \in Archs
  /\ pc = "loop"
  /\ Parser = <<>>
  /\ args = [Trace |-> TRUE]
  /\ Table \in {"MADT", "PPTT"}
  /\ \E u \in UpperBytes, a \in LowBytes, b \in LowBytes :
       /\ Offset = <<a>> \o u
       /\ AcpiTableLength = <<b>> \o u
  /\ Db = Database(Table)
  /\ Mem = <<>>

\* The body of while (Offset < AcpiTableLength): the untraced ParseAcpi of
\* the structure header, the two checks, ParseAcpiStruct, and the advance.
\* A read beyond the table is undefined behaviour: the walk goes on or faults.
WalkerIteration ==
  /\ pc = "loop"
  /\ WordLess(Offset, AcpiTableLength)
  /\ LET left == Remaining(Offset, AcpiTableLength)
         h    == ParseAcpi(TheMachine, FALSE, 0, "NULL", 0, left,
                           HeaderParser(Table),
                           Env(NoValidatorOutcome(HeaderParser(Table))))
     IN IF HeaderNotRead(h.m.slots, Table)
          THEN /\ Becomes(Emit(IncrementErrorCount(h.m), "insufficient", 0,
                               Offset))
               /\ pc' = "done"
               /\ UNCHANGED <<ret, Offset, Db, Mem>>
          ELSE \E type \in TypeVals(Table), len \in LengthVals :
                 LET m == ReadBytes(h.m, 0, 2)
                 IN /\ Mem' = Reveal(Reveal(Mem, 0, type), 1, len)
                    /\ IF InvalidLength32(Offset, len, AcpiTableLength)
                         THEN /\ Becomes(Emit(IncrementErrorCount(m),
                                              "invalidlen", len, Offset))
                              /\ pc' = "done"
                              /\ UNCHANGED <<ret, Offset, Db>>
                         ELSE \E vout \in OutcomeChoices(Db, type),
                                 npr \in NprChoices(Db, type) :
                                LET r == ParseAcpiStruct(m, 2, 0, Db, Offset,
                                                         type, len, Env(vout),
                                                         npr, Arch)
                                IN /\ Becomes(r.m)
                                   /\ Db' = r.db
                                   /\ ret' = IF r.ret THEN 1 ELSE 0
                                   /\ \/ /\ pc' = "iterated"
                                         /\ Offset' = MulAdd(Offset, 1, len)
                                      \/ /\ r.m.hw > left
                                         /\ pc' = "fault"
                                         /\ Offset' = Offset
  /\ UNCHANGED <<Consistency, Arch, Parser, args, Table, AcpiTableLength>>

\* The loop condition fails.
WalkerExit ==
  /\ pc = "loop"
  /\ ~WordLess(Offset, AcpiTableLength)
  /\ pc' = "counts"
  /\ UNCHANGED <<mTableErrorCount, mTableWarningCount, gIndent, ItemPtrs,
                 Consistency, Arch, out, hw, Parser, args, ret, Table,
                 AcpiTableLength, Offset, Db, Mem>>

NextWide ==
  \/ WalkerIteration
  \/ WalkerExit

SpecWide == InitWide /\ [][NextWide]_vars

-----------------------------------------------------------------------------
(* Properties of ParseAcpi, checked under SpecParse *)

\* The events of out that are about field i (0-based) of the list.
FieldEvents(i, e) ==
  { j \in DOMAIN out : out[j].ev = e /\ out[j].idx = i }

EventCount(e) == Cardinality({ j \in DOMAIN out : out[j].ev = e })

\* The validator calls of the last ParseAcpi call that counted an error.
ValidatorErrors ==
  Cardinality({ j \in DOMAIN out :
                  out[j].ev = "validate" /\ args.VOut[out[j].idx + 1] = "err" })

\* The field the buffer length N falls strictly inside (0-based).
FirstTruncated(P, N) ==
  CHOOSE k \in 0..(Len(P) - 1) : PrefixSum(P, k) <= N /\ N < PrefixSum(P, k + 1)

ConsistentOffsets(P) == \A i \in DOMAIN P : P[i].Offset = PrefixSum(P, i - 1)

\* C1: when the buffer length N falls strictly inside field k, ParseAcpi
\* decodes fields 0..k-1 at their offsets, decodes no field from k on, leaves
\* the capture slot of field k and of every later field NULL, and returns the
\* sum of the lengths of fields 0..k-1.
C1_TruncationStopsDecoding ==
  (pc = "returned" /\ args.Length < SumLengths(Parser)) =>
    LET k == FirstTruncated(Parser, args.Length)
    IN /\ ret = PrefixSum(Parser, k)
       /\ \A i \in 0..(Len(Parser) - 1) :
            LET F == Parser[i + 1]
            IN IF i < k
                 THEN /\ (F.ItemPtr # "NULL") =>
                           (ItemPtrs[F.ItemPtr] = PrefixSum(Parser, i))
                      /\ args.Trace =>
                           \E j \in FieldEvents(i, "name") :
                              out[j].at = PrefixSum(Parser, i)
                 ELSE /\ (F.ItemPtr # "NULL") => (ItemPtrs[F.ItemPtr] = NULL)
                      /\ FieldEvents(i, "name") = {}

\* C7: every traced in-bounds field with a format, no renderer and a width
\* other than 1, 2, 4, 8 adds one to the error counter, so that the counter
\* is the number of offset mismatches, validator errors and such fields.
C7_UnsupportedWidthCounted ==
  (pc = "returned") =>
    (mTableErrorCount =
       EventCount("mismatch") + ValidatorErrors + EventCount("cannot"))

\* C9: with tracing and consistency checking on, every decoded field that
\* has a validator has it invoked exactly once, after the field's name is
\* printed, whatever the rendering path.
C9_ValidatorOnEveryRenderPath ==
  (pc = "returned" /\ args.Trace /\ Consistency) =>
    \A i \in 0..(Len(Parser) - 1) :
      (Parser[i + 1].FieldValidator # "NULL" /\ FieldEvents(i, "name") # {}) =>
        /\ Cardinality(FieldEvents(i, "validate")) = 1
        /\ \A j \in FieldEvents(i, "validate") :
             \E n \in FieldEvents(i, "name") : n < j

\* C10: on a list with consistent declared offsets and a buffer at least as
\* long as all fields, ParseAcpi reports no offset mismatch, counts no error
\* of its own (the counter grows by the validators' errors only) and returns
\* the sum of the field lengths.
C10_ConsistentListConsumesAll ==
  (pc = "returned" /\ ConsistentOffsets(Parser)
     /\ args.Length >= SumLengths(Parser)) =>
    /\ EventCount("mismatch") = 0
    /\ mTableErrorCount = ValidatorErrors
    /\ ret = SumLengths(Parser)

C10_Witness ==
  /\ pc = "returned"
  /\ ConsistentOffsets(Parser)
  /\ Len(Parser) >= 2
  /\ args.Length = SumLengths(Parser)
  /\ args.Trace
  /\ Consistency
  /\ ret = SumLengths(Parser)
  /\ EventCount("validate") >= 1

\* The fields of P whose declared offset is not the running sum (1-based).
Perturbed(P) == { i \in DOMAIN P : P[i].Offset # PrefixSum(P, i - 1) }

\* C11: on a list where exactly one declared offset differs from the running
\* sum, decoded from a buffer long enough for all fields, ParseAcpi counts
\* one offset-mismatch error with consistency checking on and none with it
\* off; either way every field is captured at its running offset and the
\* sum of the lengths is returned.
C11_OnePerturbedOffsetOneError ==
  (pc = "returned" /\ Cardinality(Perturbed(Parser)) = 1
     /\ args.Length >= SumLengths(Parser)) =>
    /\ EventCount("mismatch") = (IF Consistency THEN 1 ELSE 0)
    /\ mTableErrorCount = EventCount("mismatch") + ValidatorErrors
    /\ \A j \in DOMAIN out :
         (out[j].ev = "mismatch") => (out[j].idx + 1 \in Perturbed(Parser))
    /\ ret = SumLengths(Parser)
    /\ \A i \in DOMAIN Parser :
         (Parser[i].ItemPtr # "NULL") =>
           (ItemPtrs[Parser[i].ItemPtr] = PrefixSum(Parser, i - 1))

C11_Witness ==
  /\ pc = "returned"
  /\ Perturbed(Parser) = {2}
  /\ args.Length >= SumLengths(Parser)
  /\ Consistency
  /\ args.Trace
  /\ mTableErrorCount = 1
  /\ Parser[2].ItemPtr # "NULL"
  /\ ret = SumLengths(Parser)

\* The printed lines that come from the ParseAcpi call DumpGas makes for a
\* field of the list.
InsideDumpGas(j) ==
  \E k \in DOMAIN out :
    /\ out[k].ev = "formatter"
    /\ Parser[out[k].idx + 1].PrintFormatter = "DumpGas"
    /\ k < j
    /\ j <= k + 2 * Len(GasParser)

\* C18: gIndent is the same after a ParseAcpi call as before it, and while
\* the call runs it is the entry value plus Indent (plus the indent of
\* DumpGas inside the ParseAcpi call DumpGas makes).
C18_IndentRestored ==
  (pc = "returned") =>
    /\ gIndent = args.gIndent
    /\ \A j \in DOMAIN out :
         out[j].ind = args.gIndent + args.Indent
                        + (IF InsideDumpGas(j) THEN 2 ELSE 0)

C18_Witness ==
  /\ pc = "returned"
  /\ args.Trace
  /\ args.Indent = 2
  /\ Len(Parser) = 2
  /\ Parser[1].PrintFormatter = "DumpGas"
  /\ \E j \in DOMAIN out : out[j].ind = 4
  /\ out[Len(out)].ind = 2
  /\ gIndent = 0

\* The list {Type: 1 byte at offset 0, Length: 1 byte at offset 1}, both
\* fields captured.
IsTypeLengthList(P) ==
  /\ Len(P) = 2
  /\ \A i \in 1..2 :
       P[i].Length = 1 /\ P[i].Offset = i - 1 /\ P[i].ItemPtr # "NULL"

\* C21: ParseAcpi without tracing on the list {Type, Length} and the buffer
\* 0x01, 0x18 of two bytes captures the address of byte 0 (holding 1) and
\* of byte 1 (holding 24), returns 2 and counts neither error nor warning.
C21_TypeLengthCaptured ==
  (pc = "returned" /\ IsTypeLengthList(Parser) /\ ~args.Trace
     /\ args.Length = 2) =>
    /\ ItemPtrs[Parser[1].ItemPtr] = 0
    /\ ItemPtrs[Parser[2].ItemPtr] = 1
    /\ Mem[ItemPtrs[Parser[1].ItemPtr]] = 1
    /\ Mem[ItemPtrs[Parser[2].ItemPtr]] = 24
    /\ ret = 2
    /\ mTableErrorCount = 0
    /\ mTableWarningCount = 0

C21_Witness ==
  /\ pc = "returned"
  /\ IsTypeLengthList(Parser)
  /\ ~args.Trace
  /\ args.Length = 2
  /\ Consistency
  /\ Mem[ItemPtrs[Parser[2].ItemPtr]] = 24
  /\ ret = 2

\* The fields of P decoded by a call with buffer length N (0-based), and
\* the offset each was decoded at: those that fit after the decoded ones
\* before them.
RECURSIVE DecodedEnd(_, _, _)
DecodedEnd(P, N, i) ==
  IF i = 0 THEN 0
  ELSE LET before == DecodedEnd(P, N, i - 1)
       IN IF before + P[i].Length <= N THEN before + P[i].Length ELSE before

IsDecoded(P, N, i) == DecodedEnd(P, N, i) # DecodedEnd(P, N, i - 1)

\* C26: when ParseAcpi returns, the returned count is at most Length, and
\* the capture variable of every field of the list is NULL or the offset the
\* field was decoded at in this call, which is the sum of the lengths of the
\* fields decoded before it and leaves the field inside Length; none holds
\* what an earlier call wrote.
C26_CapturesOfThisCall ==
  (pc = "returned") =>
    /\ ret <= args.Length
    /\ ret = DecodedEnd(Parser, args.Length, Len(Parser))
    /\ \A i \in DOMAIN Parser :
         (Parser[i].ItemPtr # "NULL") =>
           LET p == ItemPtrs[Parser[i].ItemPtr]
           IN /\ p # EarlierPtr
              /\ IF IsDecoded(Parser, args.Length, i)
                   THEN /\ p = DecodedEnd(Parser, args.Length, i - 1)
                        /\ p + Parser[i].Length <= args.Length
                   ELSE p = NULL

C26_Witness ==
  /\ pc = "returned"
  /\ Len(Parser) = 2
  /\ Parser[1].ItemPtr # "NULL"
  /\ Parser[2].ItemPtr # "NULL"
  /\ ItemPtrs["Item3"] = EarlierPtr
  /\ ItemPtrs[Parser[1].ItemPtr] = NULL
  /\ ItemPtrs[Parser[2].ItemPtr] = 0
  /\ ret = Parser[2].Length

-----------------------------------------------------------------------------
(* Properties of the table parsers, checked under SpecWalk *)

\* The structure type and length the walker reads through its capture
\* variables, once read.
SeenType == Mem[ItemPtrs[TypeSlot(Table)]]

SeenLength == Mem[ItemPtrs[LengthSlot(Table)]]

HasEvent(e) == \E j \in DOMAIN out : out[j].ev = e

\* C2: every byte read during a table parse lies at an offset below
\* AcpiTableLength.
C2_ReadsWithinTable == hw <= AcpiTableLength

C4_ShortHeaderAborts ==
  [][ /\ (pc = "check" /\ pc' # "check" /\ AcpiTableLength - Offset < 2)
         => /\ mTableErrorCount' = mTableErrorCount + 1
            /\ pc' = "done"
            /\ Db' = Db
      /\ (pc' \in {"checklen", "dispatch", "advance"})
         => /\ ItemPtrs'[TypeSlot(Table)] = Offset'
            /\ ItemPtrs'[LengthSlot(Table)] = Offset' + 1 ]_vars

C4_Witness ==
  /\ pc = "done"
  /\ HasEvent("insufficient")
  /\ AcpiTableLength - Offset = 1
  /\ SumAcpiStructCounts(Db) >= 1
  /\ mTableErrorCount = 1

\* C5: ParseAcpiStruct with a type that is not registered adds one to the
\* error counter, returns FALSE and changes no instance count.
C5_UnknownTypeCounted ==
  [][ (pc = "dispatch" /\ pc' # "dispatch" /\ SeenType' >= Len(Db.Entries))
        => /\ mTableErrorCount' = mTableErrorCount + 1
           /\ ret' = 0
           /\ Db' = Db ]_vars

C5_Witness ==
  /\ pc = "advance"
  /\ HasEvent("unknown")
  /\ SeenType = Len(Db.Entries)
  /\ SumAcpiStructCounts(Db) >= 1
  /\ ret = 0

\* The entries that are not allowed on the build target and occur.
Incompatible(db, arch) ==
  { T \in 0..(Len(db.Entries) - 1) :
      arch \notin db.Entries[T + 1].CompatArch /\ db.Entries[T + 1].Count > 0 }

\* C6: ValidateAcpiStructCounts reports one error for each entry whose
\* compatibility mask does not include the build target and whose count is
\* not zero, and returns TRUE exactly when there is no such entry.
C6_IncompatibleTypesReported ==
  (pc = "done" /\ HasEvent("breakdown")) =>
    /\ { out[j].idx : j \in { n \in DOMAIN out : out[n].ev = "archerr" } }
         = Incompatible(Db, Arch)
    /\ EventCount("archerr") = Cardinality(Incompatible(Db, Arch))
    /\ (ret = 1) <=> (Incompatible(Db, Arch) = {})

\* C8: ParseAcpiStruct with a registered type that has neither a parser
\* function nor a descriptor list adds one to the type's instance count,
\* adds one to the error counter and returns FALSE.
C8_NotImplementedCounted ==
  [][ (/\ pc = "dispatch" /\ pc' # "dispatch"
       /\ SeenType' < Len(Db.Entries)
       /\ Db.Entries[SeenType' + 1].ParserFunc = "NULL"
       /\ Db.Entries[SeenType' + 1].ParserArray = "NULL")
        => /\ Db'.Entries[SeenType' + 1].Count = Db.Entries[SeenType' + 1].Count + 1
           /\ mTableErrorCount' = mTableErrorCount + 1
           /\ ret' = 0 ]_vars

\* C17: a traced table parse starts by setting every instance count to
\* zero, whatever an earlier parse left, so that the counts it ends with are
\* those of its own structures; an untraced parse leaves the counts alone.
C17_CountsResetAtStart ==
  [][ /\ (pc = "start" /\ pc' # "start" /\ args.Trace)
         => (Db' = WithCounts(Database(Table), 0))
      /\ (pc = "start" /\ pc' # "start" /\ ~args.Trace) => (Db' = Db) ]_vars

C17_Witness ==
  /\ pc = "done"
  /\ args.Trace
  /\ args.Left >= 1
  /\ HasEvent("breakdown")
  /\ SumAcpiStructCounts(Db) = 1
  /\ Entry(Db, 0).Count = 1

\* The number of bytes the descriptor list of a registered type describes.
StructSize(db, Type) == SumLengths(StructParser(db, Type))

\* C12: ParseAcpiStruct returns FALSE when the type is not registered or
\* when Length is less than the structure's descriptor list describes.
C12_FalseOnInsufficientLength ==
  [][ (/\ pc = "dispatch" /\ pc' # "dispatch"
       /\ \/ UnknownType(Db, SeenType')
          \/ SeenLength' < StructSize(Db, SeenType'))
        => (ret' = 0) ]_vars

\* C13: the step after a structure is dispatched is the advance by its
\* declared length to the next structure, whatever the dispatch returned.
C13_AdvanceByDeclaredLength ==
  [][ /\ (pc = "dispatch" /\ pc' # "dispatch") => (pc' = "advance")
      /\ (pc = "advance" /\ pc' # "advance")
           => (pc' = "loop" /\ Offset' = Offset + SeenLength) ]_vars

\* C14: a traced table parse with consistency checking on has run the count
\* validator once when it returns.
C14_CountValidatorAlwaysRuns ==
  (pc = "done" /\ args.Trace /\ Consistency) => HasEvent("breakdown")

\* C16: ParseAcpiStruct with a registered type adds one to that entry's
\* count and leaves the other counts alone, and with an unregistered type
\* leaves all counts alone; so the sum of the counts grows by one for each
\* registered structure dispatched since the counts were reset.
C16_OneCountPerDispatch ==
  [][ (pc = "dispatch" /\ pc' # "dispatch") =>
        IF SeenType' < Len(Db.Entries)
          THEN /\ Db' = [Db EXCEPT !.Entries[SeenType' + 1].Count = @ + 1]
               /\ SumAcpiStructCounts(Db') = SumAcpiStructCounts(Db) + 1
          ELSE Db' = Db ]_vars

C16_Witness ==
  /\ pc = "advance"
  /\ Table = "PPTT"
  /\ SumAcpiStructCounts(Db) = 2
  /\ Entry(Db, 0).Count = 1
  /\ Entry(Db, 1).Count = 1

\* What consistency checking adds to the output, and the errors a parse
\* reports without it.
CheckingEvents ==
  {"mismatch", "validate", "breakdown", "count", "archerr", "onegicd"}

UncheckedErrors == {"insufficient", "invalidlen", "unknown", "invalidnpr"}

\* The environment of the same call with consistency checking on.
CheckingOn(P) == [CC |-> TRUE, VOut |-> NoValidatorOutcome(P)]

\* C19: with consistency checking off a table parse reports no offset
\* mismatch, calls no validator and does not run the count validator; the
\* error counter grows by the length errors, unknown types and errors of
\* custom decoders only, the warning counter not at all; and the offsets,
\* captures, counts and return values are those of the same step with
\* checking on.
C19_CheckingOffChangesNoDecoding ==
  [][ ~Consistency =>
        /\ \A j \in DOMAIN out' : out'[j].ev \notin CheckingEvents
        /\ mTableWarningCount' = mTableWarningCount
        /\ mTableErrorCount' = mTableErrorCount
             + Cardinality({ j \in DOMAIN out' : out'[j].ev \in UncheckedErrors })
        /\ (pc = "start" /\ pc' = "loop") =>
             LET on == ParseAcpi(TheMachine, TRUE, 0, Table, 0, AcpiTableLength,
                                 TableParser(Table),
                                 CheckingOn(TableParser(Table)))
             IN Offset' = on.ret /\ ItemPtrs' = on.m.slots
        /\ (pc = "loop" /\ pc' = "check") =>
             LET on == ParseAcpi(TheMachine, FALSE, 0, "NULL", Offset,
                                 AcpiTableLength - Offset, HeaderParser(Table),
                                 CheckingOn(HeaderParser(Table)))
             IN ItemPtrs' = on.m.slots
        /\ (pc = "dispatch" /\ pc' # "dispatch") =>
             LET on == ParseAcpiStruct(TheMachine, 2, Offset, Db, Offset,
                                       SeenType', SeenLength',
                                       CheckingOn(StructParser(Db, SeenType')),
                                       <<0, 0, 0, 0>>, Arch)
             IN /\ Db' = on.db
                /\ (ret' = 1) = on.ret
                /\ ItemPtrs' = on.m.slots
        /\ (pc = "counts") => (pc' = "done" /\ out' = <<>>) ]_vars

C19_Witness ==
  /\ ~Consistency
  /\ pc = "done"
  /\ args.Trace
  /\ Table = "MADT"
  /\ Offset = AcpiTableLength
  /\ Entry(Db, GicdType).Count = 1
  /\ mTableErrorCount = 0
  /\ out = <<>>

\* The labels printed by the last step.
Labels(o) == { j \in DOMAIN o : o[j].ev = "structname" }

\* C22: the index in the label of a structure is the instance count of its
\* type before the dispatch adds one to it, for the types decoded through a
\* descriptor list and for the PPTT processor type; as the counts start at
\* zero and grow by one for each structure of the type, it is the number of
\* structures of the type dispatched before.
C22_LabelIsCountBefore ==
  [][ (pc = "dispatch" /\ pc' # "dispatch") =>
        /\ \A j \in Labels(out') :
             /\ out'[j].idx = SeenType'
             /\ out'[j].at = Entry(Db, SeenType').Count
             /\ out'[j].at + 1 = Entry(Db', SeenType').Count
        /\ Cardinality(Labels(out')) =
             (IF StructParser(Db, SeenType') # <<>> THEN 1 ELSE 0) ]_vars

C22_Witness ==
  /\ pc = "advance"
  /\ Table = "PPTT"
  /\ \E j \in Labels(out) : out[j].idx = 0 /\ out[j].at = 1
  /\ Entry(Db, 0).Count = 2
  /\ Entry(Db, 1).Count = 1

\* C23: the private resources DumpProcessorHierarchyNodeStructure reads lie
\* inside the structure, on every build target and for every value of
\* Number of private resources: each entry read ends at or before the end of
\* the structure, and a structure that is rejected has no entry read.
C23_PrivateResourcesInsideStructure ==
  (pc \in {"advance", "fault"} /\ Table = "PPTT") =>
    /\ \A j \in DOMAIN out :
         (out[j].ev = "private") =>
           /\ out[j].idx # Far
           /\ out[j].at + 4 * out[j].idx <= Offset + SeenLength
    /\ HasEvent("invalidnpr") => ~HasEvent("private")

\* C25: ParseAcpiMadt takes the type and the length of an interrupt
\* controller structure from bytes at or after the end of the fixed part of
\* the MADT only: the walk is at offset 44 or beyond whenever it has captured
\* a structure header.
C25_WalkStartsAfterFixedPart ==
  (Table = "MADT" /\ pc \in {"checklen", "dispatch", "advance"}) =>
    (Offset >= SumLengths(MadtParser))

-----------------------------------------------------------------------------
(* Properties of one iteration of the walker's loop, checked under SpecWide *)

\* C24: an iteration of the walker's loop that does not return increases the
\* offset by at least 1 and leaves it at AcpiTableLength at most, so that the
\* offset is strictly increasing and the walk terminates.
C24_OffsetStrictlyIncreasing ==
  [][ (pc = "loop" /\ pc' = "iterated") =>
        /\ WordLess(Offset, Offset')
        /\ ~WordLess(AcpiTableLength, Offset') ]_vars

-----------------------------------------------------------------------------
(* Properties of the count validator, checked under SpecDb *)

\* C15: ValidateAcpiStructCounts leaves the database as it was, and a
\* second call right after the first returns what the first returned, prints
\* what the first printed and counts as many errors.
C15_ValidatorIdempotent ==
  [][ /\ Db' = Db
      /\ (pc = "once") =>
           /\ ret' = ret
           /\ out' = out
           /\ mTableErrorCount' = 2 * mTableErrorCount ]_vars

C15_Witness ==
  /\ pc = "twice"
  /\ ret = 0
  /\ mTableErrorCount = 2
  /\ SumAcpiStructCounts(Db) >= 2
  /\ HasEvent("count")
  /\ HasEvent("archerr")

\* The counts of the entries, and the database of the entries A (ARM), B
\* (X86), C (ARM and X86), D (ARM).
Counts(db) == [i \in DOMAIN db.Entries |-> db.Entries[i].Count]

IsAbcd(db) ==
  [i \in DOMAIN db.Entries |-> db.Entries[i].CompatArch]
    = <<ArmOnly, X86Only, Archs, ArmOnly>>

\* The lines of the output after the heading, as <<kind, type, count>>.
Lines == [j \in 1..(Len(out) - 1) |->
            <<out[j + 1].ev, out[j + 1].idx, out[j + 1].at>>]

\* C20: on an ARM target and the database A, B, C, D with counts 2, 0, 1, 0
\* ValidateAcpiStructCounts prints the counts of A, C and D, nothing for B,
\* counts no error and returns TRUE; with a count n > 0 for B it reports one
\* error, for B, and returns FALSE.
C20_ArmBreakdown ==
  (pc = "once" /\ Arch \in ArmOnly /\ IsAbcd(Db)) =>
    /\ out[1].ev = "breakdown"
    /\ (Counts(Db) = <<2, 0, 1, 0>>) =>
         /\ Lines = << <<"count", 0, 2>>, <<"count", 2, 1>>, <<"count", 3, 0>> >>
         /\ mTableErrorCount = 0
         /\ ret = 1
    /\ \A n \in 1..MaxDbCount :
         (Counts(Db) = <<2, n, 1, 0>>) =>
           /\ Lines = << <<"count", 0, 2>>, <<"archerr", 1, n>>,
                         <<"count", 2, 1>>, <<"count", 3, 0>> >>
           /\ mTableErrorCount = 1
           /\ ret = 0

C20_Witness ==
  /\ pc = "once"
  /\ Arch = "AARCH64"
  /\ IsAbcd(Db)
  /\ Counts(Db) = <<2, 1, 1, 0>>
  /\ mTableErrorCount = 1
  /\ ret = 0

=============================================================================
